---- MODULE Spec2Model ----
(***************************************************************************)
(* Model of runtime-sized-array: Array<T> (src/src/array.rs) and its three *)
(* iterators (src/src/array_iters.rs).                                      *)
(*                                                                         *)
(* The element type T is modelled as a value that owns a resource (a       *)
(* Box-like handle with drop glue): a slot of a block holds a handle       *)
(* 1..MaxRes, or 0 when the slot was never written (uninitialized bits).   *)
(* res[h] keeps the content of the resource and the number of times the   *)
(* element was finalized (its Drop ran).                                   *)
(* Dropping uninitialized bits is undefined behaviour: it finalizes        *)
(* nothing, or whichever allocated resource the stale bits alias.          *)
(* res[0].drops counts how often uninitialized bits were dropped as a T.   *)
(***************************************************************************)
EXTENDS Integers, Sequences, FiniteSets, TLC

\* ------------------------------------------------------------------ bounds
MaxSize == 2      \* array and vector lengths are 0..MaxSize
MaxSets == 1      \* element values the caller passes to set / try_set in one run

\* element values (resources) of one run: the vector's are 1..MaxSize, the
\* ones the caller passes to set / try_set are MaxSize+1..MaxRes
MaxRes == MaxSize + MaxSets

ArrIds == {"a", "b"}        \* Array<T> objects of the program
Vals   == {"x", "y"}        \* contents an element can have
Sizes  == 0..MaxSize
Indices == 0..MaxSize       \* index arguments, in and out of range
Handles == 1..MaxRes
\* heap blocks, named after the object whose constructor allocates them
Blocks  == ArrIds \cup {"v"}

VARIABLES
    mem,      \* heap blocks: state, slots, number of deallocations
    res,      \* element values: allocated, content, number of finalizations
    nsets,    \* element values the caller has passed to set / try_set so far
    arr,      \* the Array<T> objects
    vec,      \* the Vec<T> object
    it,       \* the iterator object (Iter, IterMut or IntoIter)
    held,     \* element values owned by the caller (yielded by IntoIter)
    result,   \* what the last operation returned
    panicked  \* the panic message, "none" while the program runs

vars == <<mem, res, nsets, arr, vec, it, held, result, panicked>>

\* ------------------------------------------------------------- raw pointers
\* *mut T: a block and an offset in elements; pointer.add(i) moves the offset.
NullPtr == [blk |-> "null", off |-> 0]

Base(b) == [blk |-> b, off |-> 0]

PtrAdd(p, i) == [blk |-> p.blk, off |-> p.off + i]

\* *p : the slot's bits; outside the block's slots the bits are uninitialized.
Load(m, p) ==
    IF p.blk \in Blocks /\ p.off < Len(m[p.blk].slots)
    THEN m[p.blk].slots[p.off + 1]
    ELSE 0

\* ptr::write(p, h): store without reading or dropping the old bits.
Store(m, p, h) ==
    IF p.blk \in Blocks /\ p.off < Len(m[p.blk].slots)
    THEN [m EXCEPT ![p.blk].slots[p.off + 1] = h]
    ELSE m

\* ------------------------------------------------------------ element drops
Finalize(r, h) == [r EXCEPT ![h].drops = @ + 1]

\* What stale, uninitialized bits can be when they are dropped as a T.
Garbage(r) == {0} \cup {h \in Handles : r[h].alloc}

\* drop_in_place of bits h; g is what the bits alias when h is uninitialized
\* (the drop of uninitialized bits is counted at res[0]).
DropBits(r, h, g) ==
    LET t  == IF h = 0 THEN g ELSE h
        r1 == IF h = 0 THEN Finalize(r, 0) ELSE r
    IN  IF t = 0 THEN r1 ELSE Finalize(r1, t)

RECURSIVE DropAll(_, _, _)
\* drop the bits hs[1], hs[2], ... in order; gs[k] resolves uninitialized hs[k].
DropAll(r, hs, gs) ==
    IF hs = <<>> THEN r
    ELSE DropAll(DropBits(r, Head(hs), Head(gs)), Tail(hs), Tail(gs))

\* ---------------------------------------------------------------- allocator
FreshBlock(n) == [st |-> "live", slots |-> [k \in 1..n |-> 0], frees |-> 0]

NoBlock == [st |-> "unused", slots |-> <<>>, frees |-> 0]

\* std::alloc::dealloc / Vec's RawVec drop
Dealloc(m, b) ==
    IF b \in Blocks
    THEN [m EXCEPT ![b].st = "freed", ![b].frees = @ + 1]
    ELSE m

\* ------------------------------------------------------------------ objects
NoArr == [st |-> "none", pointer |-> NullPtr, size |-> 0,
          origin |-> "none", ctor |-> 0, src |-> <<>>, clean |-> FALSE]

NoVec == [st |-> "none", pointer |-> NullPtr, len |-> 0, cap |-> 0,
          origin |-> "none", src |-> <<>>, clean |-> FALSE]

NoIter == [kind |-> "none", array |-> "none", ptr |-> NullPtr, end |-> NullPtr,
           yielded |-> 0, last |-> NullPtr]

NoResult == [op |-> "none", a |-> "none", i |-> 0, some |-> FALSE, val |-> 0]

Init ==
    /\ mem = [b \in Blocks |-> NoBlock]
    /\ res = [h \in 0..MaxRes |-> [alloc |-> FALSE, content |-> "x", drops |-> 0]]
    /\ nsets = 0
    /\ arr = [a \in ArrIds |-> NoArr]
    /\ vec = NoVec
    /\ it = NoIter
    /\ held = {}
    /\ result = NoResult
    /\ panicked = "none"

Running == panicked = "none"

\* The slots of an array, in index order.
Elems(m, a) == [k \in 1..a.size |-> Load(m, PtrAdd(a.pointer, k - 1))]

\* Borrow rules the compiler enforces: a shared borrow (Iter) allows reads,
\* a mutable borrow (IterMut) allows nothing, an array moved away is gone.
CanRead(a) ==
    /\ arr[a].st = "live"
    /\ ~(it.array = a /\ it.kind = "itermut")

CanWrite(a) ==
    /\ arr[a].st = "live"
    /\ it.array # a

\* What the uninitialized bits h may alias; one choice when h is initialized.
GarbageFor(r, h) == IF h = 0 THEN Garbage(r) ELSE {0}

\* `*p = value` : move-assignment through a pointer drops the old T in the
\* slot, then stores the new one (array.rs 278, 522, 573, 628).
AssignRes(r, m, p, g) == DropBits(r, Load(m, p), g)

AssignMem(m, p, h) == Store(m, p, h)

\* ------------------------------------------------------------ Array::new
\* (a bug to compare with: the size field counts one element too many)
ArrayOfOneMore(b, size, origin) ==
    [st |-> "live", pointer |-> Base(b), size |-> size + 1,
     origin |-> origin, ctor |-> 0, src |-> <<>>, clean |-> FALSE]

\* Ok(Self { pointer: ptr, size })
ArrayOf(b, size, origin) ==
    [st |-> "live", pointer |-> Base(b), size |-> size,
     origin |-> origin, ctor |-> 0, src |-> <<>>, clean |-> FALSE]

\* new(size): the layout of `size` elements, the allocation, the null check.
New(a, n, ok) ==
    /\ Running
    /\ arr[a].st = "none"
    /\ IF ok
       THEN /\ mem' = [mem EXCEPT ![a] = FreshBlock(n)]
            /\ arr' = [arr EXCEPT ![a] = [ArrayOf(a, n, "new")
                                            EXCEPT !.ctor = n]]
       ELSE UNCHANGED <<mem, arr>>
    /\ result' = [op |-> "new", a |-> a, i |-> n, some |-> ok, val |-> 0]
    /\ UNCHANGED <<res, nsets, vec, it, held, panicked>>

\* size()
SizeOf(a) == a.size

Size(a) ==
    /\ Running
    /\ CanRead(a)
    /\ result' = [op |-> "size", a |-> a, i |-> SizeOf(arr[a]), some |-> TRUE,
                  val |-> 0]
    /\ UNCHANGED <<mem, res, nsets, arr, vec, it, held, panicked>>

\* ------------------------------------------------------ checked accessors
\* (a bug to compare with: the bounds test written `self.size < index`)
OutOfBoundsOffByOne(size, index) == size < index

\* the bounds test of try_get / try_get_mut / try_set: `if self.size <= index`
OutOfBounds(size, index) == size <= index

\* get(index): &*pointer.add(index)
GetRef(a, index) == PtrAdd(a.pointer, index)

\* try_get(index): None, or Some(get(index))
TryGetOf(m, a, index) ==
    IF OutOfBounds(a.size, index)
    THEN [some |-> FALSE, val |-> 0]
    ELSE [some |-> TRUE, val |-> Load(m, GetRef(a, index))]

TryGet(a, i) ==
    /\ Running
    /\ CanRead(a)
    /\ LET r == TryGetOf(mem, arr[a], i)
       IN  result' = [op |-> "try_get", a |-> a, i |-> i, some |-> r.some,
                      val |-> r.val]
    /\ UNCHANGED <<mem, res, nsets, arr, vec, it, held, panicked>>

TryGetMut(a, i) ==
    /\ Running
    /\ CanWrite(a)
    /\ LET r == TryGetOf(mem, arr[a], i)
       IN  result' = [op |-> "try_get_mut", a |-> a, i |-> i, some |-> r.some,
                      val |-> r.val]
    /\ UNCHANGED <<mem, res, nsets, arr, vec, it, held, panicked>>

\* unsafe get(index); the caller keeps index < size
Get(a, i) ==
    /\ Running
    /\ CanRead(a)
    /\ i < arr[a].size
    /\ result' = [op |-> "get", a |-> a, i |-> i, some |-> TRUE,
                  val |-> Load(mem, GetRef(arr[a], i))]
    /\ UNCHANGED <<mem, res, nsets, arr, vec, it, held, panicked>>

\* ------------------------------------------------------------ set / try_set
\* (a bug to compare with: the assignment goes to the pointer, not to
\* pointer.add(index))
SetSlotFirst(a, index) == a.pointer

\* the slot set(index, value) assigns: pointer.add(index)
SetSlot(a, index) == PtrAdd(a.pointer, index)

\* The caller makes a new element value (its content starts as "x").
NewValue(r, h) == [r EXCEPT ![h] = [alloc |-> TRUE, content |-> "x", drops |-> 0]]

\* unsafe set(index, value); the caller keeps index < size
Set(a, i) ==
    /\ Running
    /\ CanWrite(a)
    /\ i < arr[a].size
    /\ nsets < MaxSets
    /\ LET v == MaxSize + nsets + 1
           p == SetSlot(arr[a], i)
       IN  /\ \E g \in GarbageFor(res, Load(mem, p)) :
                 res' = AssignRes(NewValue(res, v), mem, p, g)
           /\ mem' = AssignMem(mem, p, v)
           /\ result' = [op |-> "set", a |-> a, i |-> i, some |-> TRUE, val |-> v]
    /\ nsets' = nsets + 1
    /\ arr' = [arr EXCEPT ![a].clean = FALSE]
    /\ UNCHANGED <<vec, it, held, panicked>>

\* try_set(index, value): None (the value is dropped), or Some(set(index, value))
TrySet(a, i) ==
    /\ Running
    /\ CanWrite(a)
    /\ nsets < MaxSets
    /\ LET v == MaxSize + nsets + 1
           p == SetSlot(arr[a], i)
       IN  IF OutOfBounds(arr[a].size, i)
           THEN /\ res' = Finalize(NewValue(res, v), v)
                /\ result' = [op |-> "try_set", a |-> a, i |-> i, some |-> FALSE,
                              val |-> v]
                /\ UNCHANGED <<mem, arr>>
           ELSE /\ \E g \in GarbageFor(res, Load(mem, p)) :
                      res' = AssignRes(NewValue(res, v), mem, p, g)
                /\ mem' = AssignMem(mem, p, v)
                /\ result' = [op |-> "try_set", a |-> a, i |-> i, some |-> TRUE,
                              val |-> v]
                /\ arr' = [arr EXCEPT ![a].clean = FALSE]
    /\ nsets' = nsets + 1
    /\ UNCHANGED <<vec, it, held, panicked>>

\* The caller writes the element in place through the &mut T that
\* try_get_mut / get_mut / index_mut returned (for a Box: **r = c).
WriteInPlace(a, i, c) ==
    /\ Running
    /\ CanWrite(a)
    /\ LET r == TryGetOf(mem, arr[a], i)
       IN  /\ r.some
           /\ r.val # 0
           /\ res[r.val].drops = 0
           /\ res[r.val].content # c
           /\ res' = [res EXCEPT ![r.val].content = c]
           /\ result' = [op |-> "write", a |-> a, i |-> i, some |-> TRUE,
                         val |-> r.val]
    /\ UNCHANGED <<mem, nsets, arr, vec, it, held, panicked>>

\* ------------------------------------------------------------ Index / IndexMut
\* (a bug to compare with: indexing through the unchecked get)
IndexOfUnchecked(m, a, index) ==
    [panic |-> "none", val |-> Load(m, GetRef(a, index))]

\* try_get(index).expect("index out of bounds")
IndexOf(m, a, index) ==
    LET r == TryGetOf(m, a, index)
    IN  IF r.some
        THEN [panic |-> "none", val |-> r.val]
        ELSE [panic |-> "index out of bounds", val |-> 0]

Index(a, i) ==
    /\ Running
    /\ CanRead(a)
    /\ LET r == IndexOf(mem, arr[a], i)
       IN  /\ panicked' = r.panic
           /\ result' = [op |-> "index", a |-> a, i |-> i,
                         some |-> (r.panic = "none"), val |-> r.val]
    /\ UNCHANGED <<mem, res, nsets, arr, vec, it, held>>

IndexMut(a, i) ==
    /\ Running
    /\ CanWrite(a)
    /\ LET r == IndexOf(mem, arr[a], i)
       IN  /\ panicked' = r.panic
           /\ result' = [op |-> "index_mut", a |-> a, i |-> i,
                         some |-> (r.panic = "none"), val |-> r.val]
    /\ UNCHANGED <<mem, res, nsets, arr, vec, it, held>>

\* Deref / DerefMut: the slice view of the whole block, of length size
Deref(a) ==
    /\ Running
    /\ CanRead(a)
    /\ result' = [op |-> "deref", a |-> a, i |-> Len(Elems(mem, arr[a])),
                  some |-> TRUE, val |-> 0]
    /\ UNCHANGED <<mem, res, nsets, arr, vec, it, held, panicked>>

\* ------------------------------------------------------------------- Vec<T>
\* The caller builds a Vec of n element values (vec![..] in the tests).
MakeVec(n) ==
    /\ Running
    /\ vec.st = "none"
    /\ LET hs == [k \in 1..n |-> k]
       IN  /\ res' = [h \in 0..MaxRes |->
                        IF h \in 1..n
                        THEN [alloc |-> TRUE, content |-> "x", drops |-> 0]
                        ELSE res[h]]
           /\ mem' = IF n = 0 THEN mem
                     ELSE [mem EXCEPT !["v"] = [FreshBlock(n) EXCEPT !.slots = hs]]
           /\ vec' = [st |-> "live",
                      pointer |-> IF n = 0 THEN NullPtr ELSE Base("v"),
                      len |-> n, cap |-> n, origin |-> "caller",
                      src |-> <<>>, clean |-> FALSE]
    /\ result' = [op |-> "vec", a |-> "none", i |-> n, some |-> TRUE, val |-> 0]
    /\ UNCHANGED <<nsets, arr, it, held, panicked>>

\* The elements of the vector, in index order.
VecElems(m, v) == [k \in 1..v.len |-> Load(m, PtrAdd(v.pointer, k - 1))]

\* The choices of what each of n dropped slots aliases when uninitialized.
GarbageSeqs(r, hs) ==
    {gs \in [1..Len(hs) -> Garbage(r)] :
        \A k \in 1..Len(hs) : gs[k] \in GarbageFor(r, hs[k])}

\* Vec's drop: every element of 0..len is dropped, then the buffer is freed
\* when the capacity is not zero.
DropVec ==
    /\ Running
    /\ vec.st = "live"
    /\ \E gs \in GarbageSeqs(res, VecElems(mem, vec)) :
          res' = DropAll(res, VecElems(mem, vec), gs)
    /\ mem' = IF vec.cap > 0 THEN Dealloc(mem, vec.pointer.blk) ELSE mem
    /\ vec' = [vec EXCEPT !.st = "dropped"]
    /\ result' = [op |-> "drop_vec", a |-> "none", i |-> vec.len, some |-> TRUE,
                  val |-> 0]
    /\ UNCHANGED <<nsets, arr, it, held, panicked>>

\* ---------------------------------------------------------- fill loops
RECURSIVE FillRes(_, _, _, _, _)
\* the drops a fill loop performs: the slots base, base+1, ... are assigned in
\* turn, each assignment dropping the slot's old bits
FillRes(r, m, base, n, gs) ==
    IF n = 0 THEN r
    ELSE FillRes(AssignRes(r, m, base, Head(gs)), m, PtrAdd(base, 1), n - 1, Tail(gs))

RECURSIVE FromVecFillNoStep(_, _, _, _)
\* (a bug to compare with: the loop without its `i += 1`)
FromVecFillNoStep(m, a, items, i) ==
    IF items = <<>> THEN m
    ELSE FromVecFillNoStep(AssignMem(m, GetRef(a, i), Head(items)), a, Tail(items), i)

RECURSIVE FromVecFill(_, _, _, _)
\* From<Vec>: let mut i = 0; for item in vec { *array.get_mut(i) = item; i += 1 }
FromVecFill(m, a, items, i) ==
    IF items = <<>> THEN m
    ELSE FromVecFill(AssignMem(m, GetRef(a, i), Head(items)), a, Tail(items), i + 1)

FromVec(a, ok) ==
    /\ Running
    /\ vec.st = "live"
    /\ arr[a].st = "none"
    /\ IF ~ok
       THEN /\ panicked' = "failed to create new Array"
            /\ UNCHANGED <<mem, res, arr, vec>>
       ELSE LET size  == vec.len
                array == ArrayOf(a, size, "from")
                items == VecElems(mem, vec)
                m1    == [mem EXCEPT ![a] = FreshBlock(size)]
                m2    == FromVecFill(m1, array, items, 0)
            IN  /\ \E gs \in GarbageSeqs(res, Elems(m1, array)) :
                      res' = FillRes(res, m1, array.pointer, size, gs)
                /\ mem' = IF vec.cap > 0 THEN Dealloc(m2, vec.pointer.blk) ELSE m2
                /\ arr' = [arr EXCEPT ![a] =
                              [array EXCEPT !.ctor = vec.len, !.src = items,
                                            !.clean = TRUE]]
                /\ vec' = [vec EXCEPT !.st = "moved"]
                /\ UNCHANGED panicked
    /\ result' = [op |-> "from", a |-> a, i |-> vec.len, some |-> ok, val |-> 0]
    /\ UNCHANGED <<nsets, it, held>>

\* ---------------------------------------------------------- take_from_iter
\* val.into(): T: From<I::Item>; the items are already of type T (the tests
\* take i32 from i32), so this is core's reflexive From, which returns val.
Convert(h) == h

RECURSIVE TakeLoopInclusive(_, _, _, _, _)
\* (a bug to compare with: the loop runs over 0..=n)
TakeLoopInclusive(m, a, items, i, n) ==
    IF i = n + 1 \/ items = <<>>
    THEN [mem |-> m, pulled |-> <<>>]
    ELSE LET rest == TakeLoopInclusive(
                         AssignMem(m, PtrAdd(a.pointer, i), Convert(Head(items))),
                         a, Tail(items), i + 1, n)
         IN  [mem |-> rest.mem, pulled |-> <<Head(items)>> \o rest.pulled]

RECURSIVE TakeLoop(_, _, _, _, _)
\* for i in 0..n { match iterator.next() { None => break,
\*                  Some(val) => *arr.get_mut_ptr(i) = val.into() } }
\* gives the block after the loop and the items pulled from the iterator
TakeLoop(m, a, items, i, n) ==
    IF i = n \/ items = <<>>
    THEN [mem |-> m, pulled |-> <<>>]
    ELSE LET rest == TakeLoop(
                         AssignMem(m, PtrAdd(a.pointer, i), Convert(Head(items))),
                         a, Tail(items), i + 1, n)
         IN  [mem |-> rest.mem, pulled |-> <<Head(items)>> \o rest.pulled]

\* take_from_iter(&mut vec.into_iter(), n): the source is the iterator over
\* the vector's items; it keeps the items that were not pulled.
TakeFromIter(a, n, ok) ==
    /\ Running
    /\ vec.st = "live"
    /\ arr[a].st = "none"
    /\ IF ~ok
       THEN /\ panicked' = "failed to create new Array"
            /\ vec' = [vec EXCEPT !.st = "source"]
            /\ UNCHANGED <<mem, res, arr>>
       ELSE LET array == ArrayOf(a, n, "take")
                items == VecElems(mem, vec)
                m1    == [mem EXCEPT ![a] = FreshBlock(n)]
                out   == TakeLoop(m1, array, items, 0, n)
                k     == Len(out.pulled)
                old   == [j \in 1..k |-> Load(m1, PtrAdd(array.pointer, j - 1))]
            IN  /\ \E gs \in GarbageSeqs(res, old) :
                      res' = FillRes(res, m1, array.pointer, k, gs)
                /\ mem' = out.mem
                /\ arr' = [arr EXCEPT ![a] =
                              [array EXCEPT !.ctor = n, !.src = items]]
                /\ vec' = [vec EXCEPT !.st = "source", !.src = out.pulled]
                /\ UNCHANGED panicked
    /\ result' = [op |-> "take", a |-> a, i |-> n, some |-> ok, val |-> 0]
    /\ UNCHANGED <<nsets, it, held>>

\* ------------------------------------------------------------------ Clone
\* std::ptr::read(self.get_ptr(i)): the bits of the source slot, as they are
CloneElem(m, a, i) == Load(m, GetRef(a, i))

RECURSIVE CloneFill(_, _, _, _)
\* for i in 0..self.size { *arr.get_mut_ptr(i) = ptr::read(self.get_ptr(i)) }
CloneFill(m, self, new, i) ==
    IF i >= self.size THEN m
    ELSE CloneFill(AssignMem(m, GetRef(new, i), CloneElem(m, self, i)),
                   self, new, i + 1)

Clone(a, b, ok) ==
    /\ Running
    /\ CanRead(a)
    /\ arr[b].st = "none"
    /\ IF ~ok
       THEN /\ panicked' = "failed to crate new Array"
            /\ UNCHANGED <<mem, res, arr>>
       ELSE LET new == ArrayOf(b, arr[a].size, "clone")
                m1  == [mem EXCEPT ![b] = FreshBlock(new.size)]
            IN  /\ \E gs \in GarbageSeqs(res, Elems(m1, new)) :
                      res' = FillRes(res, m1, new.pointer, new.size, gs)
                /\ mem' = CloneFill(m1, arr[a], new, 0)
                /\ arr' = [arr EXCEPT ![b] = [new EXCEPT !.ctor = arr[a].ctor]]
                /\ UNCHANGED panicked
    /\ result' = [op |-> "clone", a |-> b, i |-> arr[a].size, some |-> ok,
                  val |-> 0]
    /\ UNCHANGED <<nsets, vec, it, held>>

\* ------------------------------------------------------------------- Drop
\* impl Drop for Array: self.pointer.drop_in_place() - the T at the pointer.
ArrayDropRes(r, m, a, g) == DropBits(r, Load(m, a.pointer), g)

\* impl Drop for Array: what happens to the heap (nothing is deallocated).
ArrayDropMem(m, a) == m

DropArray(a) ==
    /\ Running
    /\ CanWrite(a)
    /\ \E g \in GarbageFor(res, Load(mem, arr[a].pointer)) :
          res' = ArrayDropRes(res, mem, arr[a], g)
    /\ mem' = ArrayDropMem(mem, arr[a])
    /\ arr' = [arr EXCEPT ![a].st = "dropped"]
    /\ result' = [op |-> "drop", a |-> a, i |-> arr[a].size, some |-> TRUE,
                  val |-> 0]
    /\ UNCHANGED <<nsets, vec, it, held, panicked>>

\* --------------------------------------------------------------- into_vec
\* Vec::from_raw_parts(self.pointer, self.size, self.size)
IntoVecOf(a) ==
    [st |-> "live", pointer |-> a.pointer, len |-> a.size, cap |-> a.size,
     origin |-> "into_vec", src |-> a.src, clean |-> a.clean]

\* into_vec(self): the Vec is built over the block; `self` goes out of scope
\* at the end of the function, so Array's drop runs on it.
IntoVec(a) ==
    /\ Running
    /\ CanWrite(a)
    /\ vec.st # "live"
    /\ vec' = IntoVecOf(arr[a])
    /\ \E g \in GarbageFor(res, Load(mem, arr[a].pointer)) :
          res' = ArrayDropRes(res, mem, arr[a], g)
    /\ mem' = ArrayDropMem(mem, arr[a])
    /\ arr' = [arr EXCEPT ![a].st = "moved"]
    /\ result' = [op |-> "into_vec", a |-> a, i |-> arr[a].size, some |-> TRUE,
                  val |-> 0]
    /\ UNCHANGED <<nsets, it, held, panicked>>

\* -------------------------------------------------------------- iterators
\* (a bug to compare with: end is the start pointer, not pointer.add(size))
IterOfNoEnd(kind, a, array) ==
    [kind |-> kind, array |-> a, ptr |-> array.pointer,
     end |-> array.pointer, yielded |-> 0,
     last |-> NullPtr]

\* Iter::new / IterMut::new / IntoIter::new: ptr = pointer, end = pointer.add(size)
IterOf(kind, a, array) ==
    [kind |-> kind, array |-> a, ptr |-> array.pointer,
     end |-> PtrAdd(array.pointer, array.size), yielded |-> 0,
     last |-> NullPtr]

Iter(a) ==
    /\ Running
    /\ CanRead(a)
    /\ it.kind = "none"
    /\ it' = IterOf("iter", a, arr[a])
    /\ result' = [op |-> "iter", a |-> a, i |-> 0, some |-> TRUE, val |-> 0]
    /\ UNCHANGED <<mem, res, nsets, arr, vec, held, panicked>>

IterMut(a) ==
    /\ Running
    /\ CanWrite(a)
    /\ it.kind = "none"
    /\ it' = IterOf("itermut", a, arr[a])
    /\ result' = [op |-> "iter_mut", a |-> a, i |-> 0, some |-> TRUE, val |-> 0]
    /\ UNCHANGED <<mem, res, nsets, arr, vec, held, panicked>>

\* into_iter(self): the array moves into the iterator
IntoIter(a) ==
    /\ Running
    /\ CanWrite(a)
    /\ it.kind = "none"
    /\ it' = IterOf("into", a, arr[a])
    /\ arr' = [arr EXCEPT ![a].st = "iterated"]
    /\ result' = [op |-> "into_iter", a |-> a, i |-> 0, some |-> TRUE, val |-> 0]
    /\ UNCHANGED <<mem, res, nsets, vec, held, panicked>>

\* (a bug to compare with: next() without its step)
AdvanceNot(p) == p

\* self.ptr = self.ptr.add(1)
Advance(p) == PtrAdd(p, 1)

\* (a bug to compare with: the item is taken at self.ptr after the step,
\* not at the saved p)
ItemRefAfter(p) == PtrAdd(p, 1)

\* let p = self.ptr; ... Some(&*p): the slot the yielded item refers to
ItemRef(p) == p

\* next() of the three iterators: None at the end, else the slot at ptr, and
\* ptr moves one slot on. IntoIter moves the value out to the caller.
IterNext ==
    /\ Running
    /\ it.kind \in {"iter", "itermut", "into"}
    /\ IF it.ptr = it.end
       THEN /\ result' = [op |-> "next", a |-> it.array, i |-> it.yielded,
                          some |-> FALSE, val |-> 0]
            /\ UNCHANGED <<it, held>>
       ELSE LET p == ItemRef(it.ptr)
            IN  /\ it' = [it EXCEPT !.ptr = Advance(it.ptr),
                                     !.yielded = @ + 1, !.last = p]
                /\ result' = [op |-> "next", a |-> it.array, i |-> it.yielded,
                              some |-> TRUE, val |-> Load(mem, p)]
                /\ held' = IF it.kind = "into" /\ Load(mem, p) # 0
                           THEN held \cup {Load(mem, p)}
                           ELSE held
    /\ UNCHANGED <<mem, res, nsets, arr, vec, panicked>>

\* The caller writes in place through the &mut T that IterMut::next yielded
\* last (*elem += 2 in the tests; for a Box: **elem = c).
IterWrite(c) ==
    /\ Running
    /\ it.kind = "itermut"
    /\ it.last # NullPtr
    /\ LET h == Load(mem, it.last)
       IN  /\ h # 0
           /\ res[h].drops = 0
           /\ res[h].content # c
           /\ res' = [res EXCEPT ![h].content = c]
           /\ result' = [op |-> "iter_write", a |-> it.array,
                         i |-> it.yielded - 1, some |-> TRUE, val |-> h]
    /\ UNCHANGED <<mem, nsets, arr, vec, it, held, panicked>>

\* The iterator goes out of scope: a borrow ends; IntoIter drops its array.
DropIter ==
    /\ Running
    /\ it.kind \in {"iter", "itermut", "into"}
    /\ IF it.kind = "into"
       THEN /\ \E g \in GarbageFor(res, Load(mem, arr[it.array].pointer)) :
                  res' = ArrayDropRes(res, mem, arr[it.array], g)
            /\ mem' = ArrayDropMem(mem, arr[it.array])
            /\ arr' = [arr EXCEPT ![it.array].st = "dropped"]
       ELSE UNCHANGED <<res, mem, arr>>
    /\ it' = NoIter
    /\ result' = [op |-> "drop_iter", a |-> it.array, i |-> it.yielded,
                  some |-> (it.kind = "into"), val |-> 0]
    /\ UNCHANGED <<nsets, vec, held, panicked>>

\* The caller drops an element value that IntoIter moved out to it.
CallerDrop(h) ==
    /\ Running
    /\ h \in held
    /\ res' = Finalize(res, h)
    /\ held' = held \ {h}
    /\ result' = [op |-> "drop_value", a |-> "none", i |-> 0, some |-> TRUE,
                  val |-> h]
    /\ UNCHANGED <<mem, nsets, arr, vec, it, panicked>>


\* ------------------------------------------------------------ specifications
\* Constructors, checked and unchecked accessors, setters, indexing.
NextAccess ==
    \/ \E n \in Sizes, ok \in BOOLEAN : New("a", n, ok)
    \/ \E n \in Sizes : MakeVec(n)
    \/ \E ok \in BOOLEAN : FromVec("a", ok)
    \/ \E i \in Indices : TryGet("a", i)
    \/ \E i \in Indices : TryGetMut("a", i)
    \/ \E i \in Indices : Get("a", i)
    \/ \E i \in Indices : Set("a", i)
    \/ \E i \in Indices : TrySet("a", i)
    \/ \E i \in Indices : Index("a", i)
    \/ \E i \in Indices : IndexMut("a", i)

SpecAccess == Init /\ [][NextAccess]_vars

\* The size of an array over its lifetime: construction, accessors, setters,
\* borrowing iterators, the slice view and clone.
NextSize ==
    \/ \E n \in Sizes, ok \in BOOLEAN : New("a", n, ok)
    \/ \E ok \in BOOLEAN : Clone("a", "b", ok)
    \/ \E a \in ArrIds : Size(a)
    \/ \E a \in ArrIds, i \in Indices : TryGet(a, i)
    \/ \E a \in ArrIds, i \in Indices : TrySet(a, i)
    \/ \E a \in ArrIds : Deref(a)
    \/ \E a \in ArrIds : Iter(a)
    \/ \E a \in ArrIds : IterMut(a)
    \/ IterNext
    \/ DropIter

SpecSize == Init /\ [][NextSize]_vars

\* Ownership: construction from a Vec, destruction, into_vec, owning iteration.
NextOwn ==
    \/ \E n \in Sizes : MakeVec(n)
    \/ \E ok \in BOOLEAN : FromVec("a", ok)
    \/ \E a \in ArrIds : DropArray(a)
    \/ \E a \in ArrIds : IntoVec(a)
    \/ DropVec
    \/ \E a \in ArrIds : IntoIter(a)
    \/ IterNext
    \/ DropIter
    \/ \E h \in Handles : CallerDrop(h)

SpecOwn == Init /\ [][NextOwn]_vars

\* Clone and the writes that follow it.
NextClone ==
    \/ \E n \in Sizes : MakeVec(n)
    \/ \E ok \in BOOLEAN : FromVec("a", ok)
    \/ \E ok \in BOOLEAN : Clone("a", "b", ok)
    \/ \E a \in ArrIds, i \in Indices : Set(a, i)
    \/ \E a \in ArrIds, i \in Indices, c \in Vals : WriteInPlace(a, i, c)
    \/ \E a \in ArrIds : DropArray(a)

SpecClone == Init /\ [][NextClone]_vars

\* Iteration over an array built from a Vec, with writes through iter_mut()
\* and the reads that follow.
NextIter ==
    \/ \E n \in Sizes : MakeVec(n)
    \/ \E ok \in BOOLEAN : FromVec("a", ok)
    \/ Iter("a")
    \/ IterMut("a")
    \/ IntoIter("a")
    \/ IterNext
    \/ \E c \in Vals : IterWrite(c)
    \/ DropIter
    \/ \E i \in Indices : TryGet("a", i)
    \/ \E i \in Indices : Get("a", i)
    \/ \E i \in Indices : Index("a", i)

SpecIter == Init /\ [][NextIter]_vars

\* Slots that were never written: new, take_from_iter, From<Vec>, the writes
\* into them and the destruction of the array.
NextTake ==
    \/ \E n \in Sizes : MakeVec(n)
    \/ \E n \in Sizes, ok \in BOOLEAN : New("a", n, ok)
    \/ \E ok \in BOOLEAN : FromVec("a", ok)
    \/ \E n \in Sizes, ok \in BOOLEAN : TakeFromIter("a", n, ok)
    \/ \E i \in Indices : Set("a", i)
    \/ \E i \in Indices : TrySet("a", i)
    \/ \E i \in Indices : Index("a", i)
    \/ DropArray("a")

SpecTake == Init /\ [][NextTake]_vars

\* ------------------------------------------------------------------- claims
\* The element values an array holds: the initialized slots' handles.
Owned(m, a) == {Elems(m, a)[k] : k \in 1..a.size} \ {0}

AllInit(m, a) == \A k \in 1..a.size : Elems(m, a)[k] # 0

\* What a reader sees at each index: the element's content.
Values(m, r, a) ==
    [k \in 1..a.size |->
        IF Elems(m, a)[k] = 0 THEN "uninit" ELSE r[Elems(m, a)[k]].content]

\* C1: when an array whose slots are all initialized is destroyed, each of
\* its elements is finalized exactly once in that step and its block is
\* released exactly once.
C1_DropFinalizesAllAndReleases ==
    [][\A a \in ArrIds :
         (arr[a].st = "live" /\ arr'[a].st = "dropped" /\ AllInit(mem, arr[a]))
         => /\ \A h \in Owned(mem, arr[a]) : res'[h].drops = res[h].drops + 1
            /\ mem'[arr[a].pointer.blk].frees = mem[arr[a].pointer.blk].frees + 1
      ]_vars

\* C2: into_vec() hands the block to the Vec: no element is dropped in the
\* call, the block is not released, the Vec has length = capacity = size()
\* and points at the block, and the array no longer owns it.
C2_IntoVecTransfersOwnership ==
    [][\A a \in ArrIds :
         (arr[a].st = "live" /\ arr'[a].st = "moved" /\ AllInit(mem, arr[a]))
         => /\ \A h \in Owned(mem, arr[a]) : res'[h].drops = res[h].drops
            /\ mem' = mem
            /\ vec'.st = "live"
            /\ vec'.pointer = arr[a].pointer
            /\ vec'.len = arr[a].size
            /\ vec'.cap = arr[a].size
      ]_vars

\* C3: when an IntoIter that has yielded k of the n initialized elements is
\* dropped, the k yielded elements (now the caller's) are not finalized by
\* the iterator or its array, and each of the n-k others is finalized once.
C3_IntoIterDropFinalizesRest ==
    [][(it.kind = "into" /\ it'.kind = "none" /\ AllInit(mem, arr[it.array]))
       => \A k \in 1..arr[it.array].size :
             LET h == Elems(mem, arr[it.array])[k]
             IN  IF k <= it.yielded
                 THEN res'[h].drops = res[h].drops
                 ELSE res'[h].drops = res[h].drops + 1
      ]_vars

\* C4: clone() gives an array of the same size with equal elements, and the
\* two are independent: a write to an element of one leaves what is read
\* from every element of the other unchanged.
C4_CloneIndependent ==
    [][/\ (result'.op = "clone" /\ result'.some)
          => /\ arr'["b"].size = arr["a"].size
             /\ Values(mem', res', arr'["b"]) = Values(mem', res', arr'["a"])
       /\ \A x, y \in ArrIds :
            (/\ x # y
             /\ arr[x].st = "live" /\ arr[y].st = "live"
             /\ result'.op \in {"set", "try_set", "write"} /\ result'.a = x)
            => Values(mem', res', arr'[y]) = Values(mem, res, arr[y])
      ]_vars

\* C5: after clone() no element value (resource) is held by both an element
\* of the source and an element of the copy: each element was duplicated.
C5_CloneDuplicatesElements ==
    (result.op = "clone" /\ result.some)
    => Owned(mem, arr["a"]) \cap Owned(mem, arr["b"]) = {}

\* C6: try_get, try_get_mut and try_set return Some exactly when the index
\* is below size() and None otherwise, and none of them panics.
C6_CheckedAccessors ==
    result.op \in {"try_get", "try_get_mut", "try_set"}
    => /\ result.some <=> (result.i < arr[result.a].size)
       /\ panicked = "none"

C6_Witness ==
    /\ result.op \in {"try_get", "try_get_mut", "try_set"}
    /\ arr[result.a].size > 0
    /\ result.i = arr[result.a].size
    /\ ~result.some

\* C7: indexing at i gives the element try_get(i) gives when i < size() and
\* panics with "index out of bounds" when i >= size(); no other accessor
\* panics.
C7_IndexPanicsOutOfBounds ==
    /\ result.op \in {"index", "index_mut"}
       => IF result.i < arr[result.a].size
          THEN /\ panicked = "none"
               /\ TryGetOf(mem, arr[result.a], result.i)
                    = [some |-> TRUE, val |-> result.val]
          ELSE panicked = "index out of bounds"
    /\ panicked = "index out of bounds"
       => /\ result.op \in {"index", "index_mut"}
          /\ result.i >= arr[result.a].size
    /\ result.op \in {"try_get", "try_get_mut", "try_set", "get", "set"}
       => panicked = "none"

C7_Witness ==
    /\ panicked = "index out of bounds"
    /\ result.op = "index"
    /\ arr[result.a].size > 0

\* C8: after set(i, v), or a try_set(i, v) that returned Some, with i < n,
\* get(i) returns v and try_get(i) returns Some(v).
C8_SetThenGet ==
    (result.op \in {"set", "try_set"} /\ result.some)
    => /\ result.i < arr[result.a].size
       /\ Load(mem, GetRef(arr[result.a], result.i)) = result.val
       /\ TryGetOf(mem, arr[result.a], result.i)
            = [some |-> TRUE, val |-> result.val]
       /\ res[result.val].alloc

C8_Witness ==
    /\ result.op = "set"
    /\ result.i = arr[result.a].size - 1
    /\ result.i > 0
    /\ Load(mem, GetRef(arr[result.a], result.i)) = result.val

\* C9: new(n) that is given a block has size() = n, for n = 0 too, and
\* size() stays the construction-time value through accessors, setters,
\* iterators, the slice view and clone (a clone has its source's size).
C9_SizeIsFixed ==
    /\ \A a \in ArrIds : arr[a].st # "none" => SizeOf(arr[a]) = arr[a].ctor
    /\ (result.op = "new" /\ result.some)
       => arr[result.a].st = "live" /\ SizeOf(arr[result.a]) = result.i
    /\ result.op = "size" => result.i = arr[result.a].ctor
    /\ result.op = "deref" => result.i = arr[result.a].ctor

C9_Witness ==
    /\ result.op = "size"
    /\ result.a = "b"
    /\ arr["a"].origin = "new"
    /\ arr["a"].ctor = 0
    /\ nsets > 0
    /\ result.i = 0

\* C10: a Vec turned into an Array and back by into_vec() has the length it
\* had and holds the same elements in the same order.
C10_RoundTrip ==
    (vec.st = "live" /\ vec.origin = "into_vec" /\ vec.clean)
    => /\ vec.len = Len(vec.src)
       /\ vec.cap = Len(vec.src)
       /\ VecElems(mem, vec) = vec.src

C10_Witness ==
    /\ vec.st = "live"
    /\ vec.origin = "into_vec"
    /\ vec.clean
    /\ vec.len = MaxSize
    /\ VecElems(mem, vec) = [k \in 1..MaxSize |-> k]

\* C11: each of iter(), iter_mut() and into_iter() over an array of size n
\* yields exactly n items: the next() after k items were yielded gives the
\* element at index k while k < n, and reports exhaustion once k = n (for
\* n = 0 the first next() already does).
C11_IterYieldsInOrder ==
    result.op = "next"
    => LET a == arr[result.a]
       IN  IF result.i < a.size
           THEN result.some /\ result.val = Elems(mem, a)[result.i + 1]
           ELSE ~result.some /\ result.i = a.size

C11_Witness ==
    /\ result.op = "next"
    /\ ~result.some
    /\ arr[result.a].size >= 2
    /\ result.i = arr[result.a].size
    /\ it.kind = "into"

\* C12: a write made through the mutable reference that iter_mut() yielded
\* for index i is what get(i), try_get(i) and array[i] give afterwards, and
\* the elements at the other indices keep their values.
C12_IterMutWriteObserved ==
    [][result'.op = "iter_write"
       => LET a == arr'[result'.a]
              i == result'.i
              h == result'.val
          IN  /\ i < a.size
              /\ res'[h].content # res[h].content
              /\ Load(mem', GetRef(a, i)) = h
              /\ TryGetOf(mem', a, i) = [some |-> TRUE, val |-> h]
              /\ IndexOf(mem', a, i) = [panic |-> "none", val |-> h]
              /\ \A k \in 1..a.size :
                    k # i + 1
                    => Values(mem', res', a)[k] = Values(mem, res, arr[result'.a])[k]
    ]_vars

C12_Witness ==
    /\ result.op = "iter_write"
    /\ result.i >= 1
    /\ res[result.val].content = "y"
    /\ Values(mem, res, arr[result.a])[1] = "x"
    /\ TryGetOf(mem, arr[result.a], result.i).val = result.val

\* C13: take_from_iter(iterator, n) returns an array of size exactly n; when
\* the sequence has m items, slot i holds the i-th pulled item (converted
\* into T) for i < min(m, n), the slots min(m, n)..n-1 are left
\* uninitialized, and the items pulled are the first min(m, n) ones, so no
\* more than n.
C13_TakeFromIter ==
    (result.op = "take" /\ result.some)
    => LET a == arr[result.a]
           n == result.i
           m == Len(a.src)
           k == IF m < n THEN m ELSE n
       IN  /\ SizeOf(a) = n
           /\ Len(Elems(mem, a)) = n
           /\ \A j \in 1..n :
                 Elems(mem, a)[j] = IF j <= k THEN Convert(a.src[j]) ELSE 0
           /\ vec.src = SubSeq(a.src, 1, k)
           /\ Len(vec.src) <= n

C13_Witness ==
    /\ result.op = "take"
    /\ result.some
    /\ Len(arr[result.a].src) >= 1
    /\ Len(arr[result.a].src) < result.i
    /\ Elems(mem, arr[result.a])[1] = 1
    /\ Elems(mem, arr[result.a])[result.i] = 0

\* C14: while an iterator of any of the three kinds lives, its end never
\* changes; a next() at current = end leaves current where it is and reports
\* exhaustion, any other next() yields an item and moves current on by
\* exactly one slot; no other step moves current (so after one report of
\* exhaustion every later next() reports it too); and
\* start <= current <= end holds throughout.
C14_IterMovesForward ==
    [][/\ (it.kind # "none" /\ it'.kind # "none")
          => /\ it'.kind = it.kind /\ it'.array = it.array
             /\ it'.end = it.end
             /\ (result'.op = "next" /\ it.ptr = it.end)
                => (~result'.some /\ it'.ptr = it.ptr)
             /\ (result'.op = "next" /\ it.ptr # it.end)
                => (result'.some /\ it'.ptr = PtrAdd(it.ptr, 1))
             /\ result'.op # "next" => it'.ptr = it.ptr
       /\ it'.kind # "none"
          => LET start == arr'[it'.array].pointer
             IN  /\ it'.ptr.blk = start.blk /\ it'.end.blk = start.blk
                 /\ start.off <= it'.ptr.off
                 /\ it'.ptr.off <= it'.end.off
    ]_vars

C14_Witness ==
    /\ it.kind = "iter"
    /\ result.op = "next"
    /\ ~result.some
    /\ it.ptr = it.end
    /\ it.ptr.off >= 2

\* C15: a write into a never-initialized slot (set / try_set after new, the
\* fill loops of From<Vec>, clone and take_from_iter on their fresh block)
\* drops nothing: neither the slot's uninitialized bits nor any element; a
\* write to an initialized slot drops the old value once and nothing else.
C15_WriteDoesNotDropUninit ==
    [][/\ (result'.op \in {"set", "try_set"} /\ result'.some)
          => LET old == Load(mem, SetSlot(arr[result'.a], result'.i))
             IN  \A h \in 0..MaxRes :
                    res'[h].drops = IF h = old /\ old # 0
                                    THEN res[h].drops + 1
                                    ELSE res[h].drops
       /\ (result'.op \in {"from", "take", "clone"} /\ result'.some)
          => \A h \in 0..MaxRes : res'[h].drops = res[h].drops
    ]_vars

\* C16: destroying an array finalizes only elements held in its initialized
\* slots: it never drops the bits of a slot that was never written (after
\* new, after take_from_iter with too few items, or for size 0).
C16_DropSkipsUninit ==
    [][result'.op = "drop"
       => /\ res'[0].drops = res[0].drops
          /\ \A h \in Handles :
                res'[h].drops # res[h].drops
                => h \in Owned(mem, arr[result'.a])
    ]_vars

====
